---- MODULE Spec2Model ----
(***************************************************************************)
(* A model of the ARFF loader of src/arff/mod.rs: the quote-aware          *)
(* tokenizer next_quoted, the attribute-type parser parse_schema, the      *)
(* header loader load_header_line, the data row decoder load_data_line     *)
(* and the driver load_arff.                                               *)
(*                                                                         *)
(* A Rust string is a sequence of one-character strings, so that split,    *)
(* trim, starts_with, ends_with and slicing are computed as the code       *)
(* computes them.  Option<T> is a record with a flag `some`; Result<T, E>  *)
(* is a record with a flag `ok`.                                           *)
(***************************************************************************)
EXTENDS Integers, Sequences, FiniteSets, TLC

VARIABLES
    pc,         \* position of the running call
    rel,        \* the Relation: filename, name, schema, data
    file,       \* load_arff: the lines reader.lines() yields
    pos,        \* load_arff: how many of them the for loop has taken
    in_header,  \* load_arff: the local flag of line 158
    result,     \* load_arff: what the caller receives
    handled,    \* history: which loader processed which line of the file
    last,       \* the last direct call of a loader and what it returned
    fed,        \* history: the lines given to a loader called directly
    inp,        \* the string given to the pure functions
    split,      \* the delimiter given to next_quoted
    iter,       \* the fragment iterator next_quoted advances
    tokens,     \* the tokens next_quoted has returned so far
    nq,         \* the last call of next_quoted: iterator before, value returned
    ptype,      \* what parse_schema returned for inp
    acc         \* the last call of an accessor: relation, index, value returned

vars == <<pc, rel, file, pos, in_header, result, handled, last, fed,
          inp, split, iter, tokens, nq, ptype, acc>>

(***************************************************************************)
(* Bounds of the model.                                                    *)
(***************************************************************************)
MaxStrLen == 4
MaxLines == 3
MaxHeaderCalls == 4
MaxAttrs == 2
MaxDataCalls == 2
MaxIndex == 3
MaxCalls == 3

(***************************************************************************)
(* Strings.                                                                *)
(***************************************************************************)
Min(a, b) == IF a < b THEN a ELSE b

StartsWith(s, c) == Len(s) > 0 /\ s[1] = c

EndsWith(s, c) == Len(s) > 0 /\ s[Len(s)] = c

Contains(s, c) == \E i \in 1..Len(s) : s[i] = c

FirstIndex(s, c) == CHOOSE i \in 1..Len(s) : s[i] = c /\ \A j \in 1..(i - 1) : s[j] # c

\* str::split(char): one fragment more than there are delimiters.
RECURSIVE Split(_, _)
Split(s, d) ==
    IF ~Contains(s, d) THEN <<s>>
    ELSE LET i == FirstIndex(s, d)
         IN  <<SubSeq(s, 1, i - 1)>> \o Split(SubSeq(s, i + 1, Len(s)), d)

\* [&str]::join(sep)
RECURSIVE Join(_, _)
Join(frags, d) ==
    IF frags = <<>> THEN <<>>
    ELSE IF Len(frags) = 1 THEN frags[1]
    ELSE frags[1] \o <<d>> \o Join(Tail(frags), d)

IsWhite(c) == c \in {" ", "\t"}

\* str::trim()
Trim(s) ==
    LET keep == {i \in 1..Len(s) : ~IsWhite(s[i])}
    IN  IF keep = {} THEN <<>>
        ELSE SubSeq(s, CHOOSE i \in keep : \A j \in keep : i <= j,
                       CHOOSE i \in keep : \A j \in keep : i >= j)

UpperChars == <<"A","B","C","D","E","F","G","H","I","J","K","L","M",
                "N","O","P","Q","R","S","T","U","V","W","X","Y","Z">>

LowerChars == <<"a","b","c","d","e","f","g","h","i","j","k","l","m",
                "n","o","p","q","r","s","t","u","v","w","x","y","z">>

ToAsciiLower(c) ==
    IF \E i \in 1..Len(UpperChars) : UpperChars[i] = c
    THEN LowerChars[CHOOSE i \in 1..Len(UpperChars) : UpperChars[i] = c]
    ELSE c

\* str::eq_ignore_ascii_case
EqIgnoreAsciiCase(s, t) ==
    /\ Len(s) = Len(t)
    /\ \A i \in 1..Len(s) : ToAsciiLower(s[i]) = ToAsciiLower(t[i])

(***************************************************************************)
(* Option and Result values.                                               *)
(***************************************************************************)
NoErr == [msg |-> "", text |-> <<>>, x |-> 0, y |-> 0]

ErrText(m, s) == [msg |-> m, text |-> s, x |-> 0, y |-> 0]

ErrLen(m, a, b) == [msg |-> m, text |-> <<>>, x |-> a, y |-> b]

(***************************************************************************)
(* next_quoted, lines 35-59.                                               *)
(***************************************************************************)
\* The inner loop of lines 40-49: extend result until it ends with a quote
\* or the iterator is exhausted.
RECURSIVE QuoteScan(_, _, _)
QuoteScan(res, it, d) ==
    IF EndsWith(res, "'") THEN [closed |-> TRUE, res |-> res, iter |-> it]
    ELSE IF it = <<>> THEN [closed |-> FALSE, res |-> res, iter |-> it]
    ELSE QuoteScan(res \o <<d>> \o Head(it), Tail(it), d)

\* A mutant of QuoteScan: the delimiter is not put back between fragments.
RECURSIVE QuoteScanNoDelim(_, _, _)
QuoteScanNoDelim(res, it, d) ==
    IF EndsWith(res, "'") THEN [closed |-> TRUE, res |-> res, iter |-> it]
    ELSE IF it = <<>> THEN [closed |-> FALSE, res |-> res, iter |-> it]
    ELSE QuoteScanNoDelim(res \o Head(it), Tail(it), d)

QuoteLoopNoDelim(res, it, d) == QuoteScanNoDelim(res, it, d)

\* A mutant of QuoteLoop: the end of the fragments closes an open quote.
QuoteLoopCloseAtEnd(res, it, d) ==
    [QuoteScan(res, it, d) EXCEPT !.closed = TRUE]

\* A mutant of QuoteLoop: a fragment is taken before the first test (do-while).
QuoteLoopEager(res, it, d) ==
    IF it = <<>> THEN QuoteScan(res, it, d)
    ELSE QuoteScan(res \o <<d>> \o Head(it), Tail(it), d)

QuoteLoop(res, it, d) == QuoteScan(res, it, d)

\* The value is [some, val, iter, panic]: the Option returned, the iterator
\* as the call leaves it, and whether the assertion of line 51 failed.
RECURSIVE next_quoted(_, _)
next_quoted(it, d) ==
    IF it = <<>> THEN [some |-> FALSE, val |-> <<>>, iter |-> <<>>, panic |-> FALSE]
    ELSE LET token == Head(it)
             rest  == Tail(it)
         IN  IF token = <<>> THEN next_quoted(rest, d)
             ELSE IF StartsWith(token, "'")
             THEN LET s == QuoteLoop(Tail(token), rest, d)
                  IN  IF ~s.closed
                      THEN [some |-> FALSE, val |-> <<>>, iter |-> s.iter,
                            panic |-> FALSE]
                      ELSE IF ~(Len(s.res) > 0)
                      THEN [some |-> FALSE, val |-> <<>>, iter |-> s.iter,
                            panic |-> TRUE]
                      ELSE [some |-> TRUE,
                            val |-> SubSeq(s.res, 1, Len(s.res) - 1),
                            iter |-> s.iter, panic |-> FALSE]
             ELSE [some |-> TRUE, val |-> token, iter |-> rest, panic |-> FALSE]

\* The loop of lines 72-74: every token next_quoted yields until None.
RECURSIVE CollectTokens(_, _)
CollectTokens(it, d) ==
    LET r == next_quoted(it, d)
    IN  IF r.some THEN <<r.val>> \o CollectTokens(r.iter, d) ELSE <<>>

(***************************************************************************)
(* AttributeType::parse_schema, lines 62-86.                               *)
(***************************************************************************)
s_real == <<"r","e","a","l">>
s_continuous == <<"c","o","n","t","i","n","u","o","u","s">>
s_integer == <<"i","n","t","e","g","e","r">>

NumericKeywords == {s_real, s_continuous, s_integer}

EmptyMap == [v \in {} |-> 0]

Numeric == [kind |-> "Numeric", values |-> <<>>, reversed |-> EmptyMap]

Nominal(values, reversed) == [kind |-> "Nominal", values |-> values, reversed |-> reversed]

NoType == [kind |-> "None", values |-> <<>>, reversed |-> EmptyMap]

\* The loop of lines 79-83, from 0-based position n on: HashMap::insert
\* returns Some when the key was present.
RECURSIVE InsertAll(_, _, _)
InsertAll(values, n, reversed) ==
    IF n = Len(values) THEN [dup |-> FALSE, value |-> <<>>, reversed |-> reversed]
    ELSE LET value == values[n + 1]
         IN  IF value \in DOMAIN reversed
             THEN [dup |-> TRUE, value |-> value, reversed |-> EmptyMap]
             ELSE InsertAll(values, n + 1, reversed @@ (value :> n))

\* A mutant of InsertAll: codes are counted from 1.
RECURSIVE InsertAllFromOne(_, _, _)
InsertAllFromOne(values, n, reversed) ==
    IF n = Len(values) THEN [dup |-> FALSE, value |-> <<>>, reversed |-> reversed]
    ELSE LET value == values[n + 1]
         IN  IF value \in DOMAIN reversed
             THEN [dup |-> TRUE, value |-> value, reversed |-> EmptyMap]
             ELSE InsertAllFromOne(values, n + 1, reversed @@ (value :> n + 1))

BuildReversedFromOne(values) == InsertAllFromOne(values, 0, EmptyMap)

BuildReversed(values) == InsertAll(values, 0, EmptyMap)

\* A mutant of NotBraced: only the opening brace is looked at.
NotBracedOpenOnly(type_str) == ~StartsWith(type_str, "{")

\* The test of line 66.
NotBraced(type_str) == ~(StartsWith(type_str, "{") /\ EndsWith(type_str, "}"))

parse_schema(type_str) ==
    IF \E x \in NumericKeywords : EqIgnoreAsciiCase(type_str, x)
    THEN [ok |-> TRUE, type |-> Numeric, err |-> NoErr]
    ELSE IF NotBraced(type_str)
    THEN [ok |-> FALSE, type |-> NoType,
          err |-> ErrText("Invalid attribute type: {}", type_str)]
    ELSE LET body   == SubSeq(type_str, 2, Len(type_str) - 1)
             values == CollectTokens(Split(body, ","), ",")
         IN  IF Len(values) = 0
             THEN [ok |-> FALSE, type |-> NoType,
                   err |-> ErrText("Incomplete nominal attribute type", <<>>)]
             ELSE LET ins == BuildReversed(values)
                  IN  IF ins.dup
                      THEN [ok |-> FALSE, type |-> NoType,
                            err |-> ErrText("Duplicate nominal attribute: {}", ins.value)]
                      ELSE [ok |-> TRUE, type |-> Nominal(values, ins.reversed),
                            err |-> NoErr]

(***************************************************************************)
(* str::parse::<f64>, line 129.  A float is kept as sign, decimal mantissa *)
(* and decimal exponent, normalised so that equal decimals are equal       *)
(* values; inf and nan are kept by name.                                   *)
(***************************************************************************)
DigitChars == <<"0","1","2","3","4","5","6","7","8","9">>

IsDigit(c) == \E i \in 1..Len(DigitChars) : DigitChars[i] = c

DigitVal(c) == (CHOOSE i \in 1..Len(DigitChars) : DigitChars[i] = c) - 1

AllDigits(s) == \A i \in 1..Len(s) : IsDigit(s[i])

RECURSIVE DecVal(_)
DecVal(s) ==
    IF s = <<>> THEN 0
    ELSE DecVal(SubSeq(s, 1, Len(s) - 1)) * 10 + DigitVal(s[Len(s)])

RECURSIVE Normalise(_, _)
Normalise(mant, exp) ==
    IF mant = 0 THEN <<0, 0>>
    ELSE IF mant % 10 = 0 THEN Normalise(mant \div 10, exp + 1)
    ELSE <<mant, exp>>

Float(special, neg, mant, exp) ==
    [special |-> special, neg |-> neg, mant |-> Normalise(mant, exp)[1],
     exp |-> Normalise(mant, exp)[2]]

ZeroFloat == Float("", FALSE, 0, 0)

HasSign(s) == Len(s) > 0 /\ s[1] \in {"+", "-"}

Unsigned(s) == IF HasSign(s) THEN Tail(s) ELSE s

\* The part before and the part after the first of the characters cs.
Before(s, cs) ==
    IF \E i \in 1..Len(s) : s[i] \in cs
    THEN SubSeq(s, 1, (CHOOSE i \in 1..Len(s) :
                          s[i] \in cs /\ \A j \in 1..(i - 1) : s[j] \notin cs) - 1)
    ELSE s

After(s, cs) == SubSeq(s, Len(Before(s, cs)) + 2, Len(s))

HasAny(s, cs) == \E i \in 1..Len(s) : s[i] \in cs

parse_f64(s) ==
    LET body     == Unsigned(s)
        neg      == HasSign(s) /\ s[1] = "-"
        mantStr  == Before(body, {"e", "E"})
        hasExp   == HasAny(body, {"e", "E"})
        expStr   == After(body, {"e", "E"})
        intStr   == Before(mantStr, {"."})
        fracStr  == IF HasAny(mantStr, {"."}) THEN After(mantStr, {"."}) ELSE <<>>
        mantOk   == /\ AllDigits(intStr)
                    /\ AllDigits(fracStr)
                    /\ Len(intStr) + Len(fracStr) > 0
        expOk    == ~hasExp \/ (Len(Unsigned(expStr)) > 0 /\ AllDigits(Unsigned(expStr)))
        expVal   == IF ~hasExp THEN 0
                    ELSE IF HasSign(expStr) /\ expStr[1] = "-"
                    THEN 0 - DecVal(Unsigned(expStr))
                    ELSE DecVal(Unsigned(expStr))
    IN  IF s = <<>>
        THEN [ok |-> FALSE, num |-> ZeroFloat,
              err |-> ErrText("cannot parse float from empty string", <<>>)]
        ELSE IF \/ EqIgnoreAsciiCase(body, <<"i","n","f">>)
                \/ EqIgnoreAsciiCase(body, <<"i","n","f","i","n","i","t","y">>)
        THEN [ok |-> TRUE, num |-> Float("inf", neg, 0, 0), err |-> NoErr]
        ELSE IF EqIgnoreAsciiCase(body, <<"n","a","n">>)
        THEN [ok |-> TRUE, num |-> Float("nan", neg, 0, 0), err |-> NoErr]
        ELSE IF mantOk /\ expOk
        THEN [ok |-> TRUE,
              num |-> Float("", neg, DecVal(intStr \o fracStr), expVal - Len(fracStr)),
              err |-> NoErr]
        ELSE [ok |-> FALSE, num |-> ZeroFloat,
              err |-> ErrText("invalid float literal", <<>>)]

(***************************************************************************)
(* Value, lines 29-33, and AttributeFormat, lines 19-22.                   *)
(***************************************************************************)
NumericValue(x) == [kind |-> "Numeric", num |-> x, code |-> 0]

NominalValue(c) == [kind |-> "Nominal", num |-> ZeroFloat, code |-> c]

Missing == [kind |-> "Missing", num |-> ZeroFloat, code |-> 0]

AttributeFormat(name, attr_type) == [name |-> name, attr_type |-> attr_type]

(***************************************************************************)
(* Relation::load_header_line, lines 90-119.  The value is                 *)
(* [ok, done, err, rel, panic]: Ok(done) or Err(err), the relation as the  *)
(* call leaves it, and whether next_quoted panicked.                       *)
(***************************************************************************)
s_at_relation == <<"@","r","e","l","a","t","i","o","n">>
s_at_attribute == <<"@","a","t","t","r","i","b","u","t","e">>
s_at_data == <<"@","d","a","t","a">>

HeaderOk(r, done) == [ok |-> TRUE, done |-> done, err |-> NoErr, rel |-> r, panic |-> FALSE]

\* A mutant of HeaderErr: the name is reset before the error is returned.
HeaderErrNameCleared(r, e) ==
    [ok |-> FALSE, done |-> FALSE, err |-> e, rel |-> [r EXCEPT !.name = <<>>],
     panic |-> FALSE]

HeaderErr(r, e) == [ok |-> FALSE, done |-> FALSE, err |-> e, rel |-> r, panic |-> FALSE]

HeaderPanic(r) == [ok |-> FALSE, done |-> FALSE, err |-> NoErr, rel |-> r, panic |-> TRUE]

\* A mutant of PushAttribute: the new column goes to the front.
PushAttributeFront(schema, entry) == <<entry>> \o schema

\* self.schema.push(entry), line 112.
PushAttribute(schema, entry) == Append(schema, entry)

\* The arm of line 115.
IsDataDirective(token) == token = s_at_data

\* A mutant of MatchedToken: the token is lowered before the match, as the
\* line commented out at 97 would do.
MatchedTokenLowered(token) == [i \in 1..Len(token) |-> ToAsciiLower(token[i])]

\* The string the match of line 98 compares with the directives: the token
\* as it stands.
MatchedToken(token) == token

\* A mutant of IsEmptyToken: the "" arm is missing.
IsEmptyTokenNever(token) == FALSE

\* The arm of line 116.
IsEmptyToken(token) == token = <<>>

load_header_line(r, line) ==
    LET toks == Split(line, " ")
    IN  IF toks = <<>> THEN HeaderOk(r, FALSE)
        ELSE LET token == Head(toks)
                 rest  == Tail(toks)
                 n     == next_quoted(rest, " ")
             IN  IF MatchedToken(token) = s_at_relation
                 THEN IF n.panic THEN HeaderPanic(r)
                      ELSE IF ~n.some
                      THEN HeaderErr(r, ErrText("No relation name given", <<>>))
                      ELSE HeaderOk([r EXCEPT !.name = n.val], FALSE)
                 ELSE IF MatchedToken(token) = s_at_attribute
                 THEN IF n.panic THEN HeaderPanic(r)
                      ELSE IF ~n.some
                      THEN HeaderErr(r, ErrText("No attribute name given", <<>>))
                      ELSE LET t == parse_schema(Trim(Join(n.iter, " ")))
                           IN  IF ~t.ok THEN HeaderErr(r, t.err)
                               ELSE HeaderOk(
                                      [r EXCEPT !.schema =
                                          PushAttribute(@, AttributeFormat(n.val, t.type))],
                                      FALSE)
                 ELSE IF IsDataDirective(MatchedToken(token)) THEN HeaderOk(r, TRUE)
                 ELSE IF IsEmptyToken(MatchedToken(token)) THEN HeaderOk(r, FALSE)
                 ELSE HeaderErr(r, ErrText("Unrecognized token {} in header", token))

(***************************************************************************)
(* Relation::load_data_line, lines 121-143.  The value is [ok, err, rel].  *)
(***************************************************************************)
\* A mutant of ConvertField: nominal codes are counted from 1.
ConvertFieldCodeFromOne(token, attr) ==
    IF token = <<"?">> THEN [ok |-> TRUE, val |-> Missing, err |-> NoErr]
    ELSE IF attr.attr_type.kind = "Numeric"
    THEN LET p == parse_f64(token)
         IN  [ok |-> p.ok, val |-> NumericValue(p.num), err |-> p.err]
    ELSE IF token \in DOMAIN attr.attr_type.reversed
    THEN [ok |-> TRUE, val |-> NominalValue(attr.attr_type.reversed[token] + 1),
          err |-> NoErr]
    ELSE [ok |-> FALSE, val |-> Missing, err |-> ErrText("Unrecognized value {}", token)]

\* The closure of lines 123-135 for one (token, attr) pair.
ConvertField(token, attr) ==
    IF token = <<"?">> THEN [ok |-> TRUE, val |-> Missing, err |-> NoErr]
    ELSE IF attr.attr_type.kind = "Numeric"
    THEN LET p == parse_f64(token)
         IN  [ok |-> p.ok, val |-> NumericValue(p.num), err |-> p.err]
    ELSE IF token \in DOMAIN attr.attr_type.reversed
    THEN [ok |-> TRUE, val |-> NominalValue(attr.attr_type.reversed[token]),
          err |-> NoErr]
    ELSE [ok |-> FALSE, val |-> Missing, err |-> ErrText("Unrecognized value {}", token)]

\* line.split(',').map(|x| x.trim()), line 123.
Fields(line) ==
    LET frags == Split(line, ",") IN [k \in 1..Len(frags) |-> Trim(frags[k])]

\* A mutant of WidthMismatch: a short row passes.
WidthMismatchLonger(row, schema) == Len(row) > Len(schema)

\* The test of line 137.
WidthMismatch(row, schema) == Len(row) # Len(schema)

\* A mutant of PushRow: the row is put in front of the stored rows.
PushRowFront(data, row) == <<row>> \o data

\* self.data.push(data.into_boxed_slice()), line 141.
PushRow(data, row) == Append(data, row)

DataOk(r) == [ok |-> TRUE, err |-> NoErr, rel |-> r]

DataErr(r, e) == [ok |-> FALSE, err |-> e, rel |-> r]

load_data_line(r, line) ==
    LET fields == Fields(line)
        n      == Min(Len(fields), Len(r.schema))
        conv   == [k \in 1..n |-> ConvertField(fields[k], r.schema[k])]
        bad    == {k \in 1..n : ~conv[k].ok}
        row    == [k \in 1..n |-> conv[k].val]
    IN  IF bad # {}
        THEN DataErr(r, conv[CHOOSE k \in bad : \A j \in bad : k <= j].err)
        ELSE IF WidthMismatch(row, r.schema)
        THEN DataErr(r, ErrLen("Data length ({}) does not match schema length ({})",
                               Len(row), Len(r.schema)))
        ELSE DataOk([r EXCEPT !.data = PushRow(@, row)])

(***************************************************************************)
(* The accessors Relation::row, lines 171-176, and Relation::col, lines    *)
(* 185-187.  Indices are 0-based; the value is [some, val].                *)
(***************************************************************************)
Some(v) == [some |-> TRUE, val |-> v]

None == [some |-> FALSE, val |-> <<>>]

\* slice::get(n)
Get(xs, n) == IF n < Len(xs) THEN Some(xs[n + 1]) ELSE None

row(r, n) == Get(r.data, n)

\* A mutant of col: the index is taken 1-based.
colOneBased(r, n) ==
    LET cells == [i \in 1..Len(r.data) |-> Get(r.data[i], n - 1)]
    IN  IF n = 0 \/ \E i \in 1..Len(cells) : ~cells[i].some THEN None
        ELSE Some([i \in 1..Len(cells) |-> cells[i].val])

\* The cells that are present, in order.
RECURSIVE Present(_)
Present(cells) ==
    IF cells = <<>> THEN <<>>
    ELSE IF Head(cells).some THEN <<Head(cells).val>> \o Present(Tail(cells))
    ELSE Present(Tail(cells))

\* A mutant of col: a row that lacks the index is left out (filter_map).
colSkipsShortRows(r, n) ==
    Some(Present([i \in 1..Len(r.data) |-> Get(r.data[i], n)]))

\* Collecting the Option of every row into one Option: None as soon as one
\* row lacks the index, Some of the cells otherwise, Some([]) without rows.
col(r, n) ==
    LET cells == [i \in 1..Len(r.data) |-> Get(r.data[i], n)]
    IN  IF \E i \in 1..Len(cells) : ~cells[i].some THEN None
        ELSE Some([i \in 1..Len(cells) |-> cells[i].val])

(***************************************************************************)
(* The values the variables hold while the call they belong to is not     *)
(* running.                                                                *)
(***************************************************************************)
EmptyRelation(filename) ==
    [filename |-> filename, name |-> <<>>, schema |-> <<>>, data |-> <<>>]

NoResult == [returned |-> FALSE, ok |-> FALSE, err |-> NoErr, rel |-> EmptyRelation(<<>>)]

NoCall == [op |-> "none", line |-> <<>>, ok |-> TRUE, done |-> FALSE, err |-> NoErr,
           before |-> EmptyRelation(<<>>)]

NoNq == [before |-> <<>>,
         ret |-> [some |-> FALSE, val |-> <<>>, iter |-> <<>>, panic |-> FALSE]]

NoParse == [ok |-> FALSE, type |-> NoType, err |-> NoErr]

NoAccess == [op |-> "none", on |-> EmptyRelation(<<>>), n |-> 0, ret |-> None]

(***************************************************************************)
(* SpecPure: next_quoted called until it returns None over the fragments   *)
(* of a string, then parse_schema applied to the same string.              *)
(***************************************************************************)
Alphabet == {"a", "b", "'", ",", " ", "{", "}"}

StringsUpTo(n) == UNION {[1..k -> Alphabet] : k \in 0..n}

s_quoted_ab_c == <<"'","a",",","b","'",",","c">>
s_plain_text == <<"p","l","a","i","n",",","t","e","x","t">>
s_red_green_blue == <<"{","r","e","d",",","g","r","e","e","n",",","b","l","u","e","}">>
s_REAL == <<"R","E","A","L">>
s_Integer == <<"I","n","t","e","g","e","r">>
s_foo == <<"f","o","o">>
s_a_a == <<"{","a",",","a","}">>
s_a_b == <<"{","a",",","b","}">>
s_qa_a == <<"{","'","a","'",",","a","}">>
s_qab_a == <<"{","'","a",",","b","'",",","a","}">>

PureInputs ==
    StringsUpTo(MaxStrLen) \cup
    {s_quoted_ab_c, s_plain_text, s_red_green_blue, s_REAL, s_Integer, s_real,
     s_continuous, s_integer, s_foo, s_a_a, s_a_b, s_qa_a, s_qab_a}

\* The delimiters the callers pass: lines 72, 100 and 105.
Delimiters == {",", " "}

InitPure ==
    /\ inp \in PureInputs
    /\ split \in Delimiters
    /\ iter = Split(inp, split)
    /\ tokens = <<>>
    /\ nq = NoNq
    /\ ptype = NoParse
    /\ acc = NoAccess
    /\ pc = "tokens"
    /\ rel = EmptyRelation(<<>>)
    /\ file = <<>>
    /\ pos = 0
    /\ in_header = FALSE
    /\ result = NoResult
    /\ handled = <<>>
    /\ last = NoCall
    /\ fed = <<>>

\* One call of next_quoted on the iterator.
CallNextQuoted ==
    /\ pc = "tokens"
    /\ LET r == next_quoted(iter, split)
       IN  /\ nq' = [before |-> iter, ret |-> r]
           /\ iter' = r.iter
           /\ tokens' = IF r.some THEN Append(tokens, r.val) ELSE tokens
           /\ pc' = IF r.panic THEN "panic" ELSE IF r.some THEN "tokens" ELSE "schema"
    /\ UNCHANGED <<acc, rel, file, pos, in_header, result, handled, last, fed, inp, split, ptype>>

\* One call of parse_schema on the string.
CallParseSchema ==
    /\ pc = "schema"
    /\ ptype' = parse_schema(inp)
    /\ pc' = "parsed"
    /\ UNCHANGED <<acc, rel, file, pos, in_header, result, handled, last, fed, inp, split,
                   iter, tokens, nq>>

NextPure == CallNextQuoted \/ CallParseSchema

SpecPure == InitPure /\ [][NextPure]_vars

(***************************************************************************)
(* C4.                                                                     *)
(***************************************************************************)
\* The tokens the claim describes for a fragment sequence, and whether the
\* claim covers it: a fragment that both starts and ends with a quote, and a
\* quote that no later fragment closes, are cases of other claims.
RECURSIVE ClaimTokens(_, _)
ClaimTokens(frags, d) ==
    IF frags = <<>> THEN [covered |-> TRUE, toks |-> <<>>]
    ELSE LET f == Head(frags)
         IN  IF f = <<>> THEN ClaimTokens(Tail(frags), d)
             ELSE IF f[1] # "'"
             THEN LET r == ClaimTokens(Tail(frags), d)
                  IN  [covered |-> r.covered, toks |-> <<f>> \o r.toks]
             ELSE IF f[Len(f)] = "'" THEN [covered |-> FALSE, toks |-> <<>>]
             ELSE LET closers == {j \in 2..Len(frags) :
                                     Len(frags[j]) > 0 /\ frags[j][Len(frags[j])] = "'"}
                  IN  IF closers = {} THEN [covered |-> FALSE, toks |-> <<>>]
                      ELSE LET j == CHOOSE k \in closers : \A m \in closers : k <= m
                               joined == Join(SubSeq(frags, 1, j), d)
                               r == ClaimTokens(SubSeq(frags, j + 1, Len(frags)), d)
                           IN  [covered |-> r.covered,
                                toks |-> <<SubSeq(joined, 2, Len(joined) - 1)>> \o r.toks]

\* C4: when next_quoted has been called over the fragments of a line until it
\* returned None, the tokens it returned are, in order, each non-empty
\* unquoted fragment verbatim and, for each fragment that opens a quote without
\* closing it, that fragment joined with the following ones up to the first
\* that ends in a quote, the delimiter put back and the two quotes stripped;
\* empty fragments give no token.  "'a,b',c" gives a,b and c; "plain,text"
\* gives plain and text.
C4_TokensAsDescribed ==
    pc \in {"schema", "parsed"} =>
        LET c == ClaimTokens(Split(inp, split), split)
        IN  /\ c.covered => tokens = c.toks
            /\ \A i \in 1..Len(tokens) : c.covered => tokens[i] # <<>>
            /\ (inp = s_quoted_ab_c /\ split = ",") =>
                   tokens = << <<"a", ",", "b">>, <<"c">> >>
            /\ (inp = s_plain_text /\ split = ",") =>
                   tokens = << <<"p","l","a","i","n">>, <<"t","e","x","t">> >>

C4_Witness ==
    /\ pc = "schema"
    /\ inp = s_quoted_ab_c
    /\ split = ","
    /\ tokens = << <<"a", ",", "b">>, <<"c">> >>

(***************************************************************************)
(* C5.                                                                     *)
(***************************************************************************)
BraceBody(type_str) == SubSeq(type_str, 2, Len(type_str) - 1)

\* C5: a Nominal type returned by parse_schema lists the declared value names
\* in declaration order without duplicates, and its reverse lookup is exactly
\* the map from each name to its 0-based position in that list.
C5_NominalWellFormed ==
    (pc = "parsed" /\ ptype.ok /\ ptype.type.kind = "Nominal") =>
        LET values   == ptype.type.values
            reversed == ptype.type.reversed
            declared == ClaimTokens(Split(BraceBody(inp), ","), ",")
        IN  /\ Len(values) > 0
            /\ \A i, j \in 1..Len(values) : values[i] = values[j] => i = j
            /\ DOMAIN reversed = {values[i] : i \in 1..Len(values)}
            /\ \A i \in 1..Len(values) : reversed[values[i]] = i - 1
            /\ declared.covered => values = declared.toks
            /\ inp = s_red_green_blue =>
                   /\ values = << <<"r","e","d">>, <<"g","r","e","e","n">>,
                                  <<"b","l","u","e">> >>
                   /\ reversed[<<"r","e","d">>] = 0
                   /\ reversed[<<"g","r","e","e","n">>] = 1
                   /\ reversed[<<"b","l","u","e">>] = 2

C5_Witness ==
    /\ pc = "parsed"
    /\ inp = s_red_green_blue
    /\ ptype.ok
    /\ ptype.type.kind = "Nominal"
    /\ Len(ptype.type.values) = 3

(***************************************************************************)
(* C6.                                                                     *)
(***************************************************************************)
IsNumericKeyword(type_str) ==
    \E k \in NumericKeywords :
        /\ Len(k) = Len(type_str)
        /\ \A i \in 1..Len(k) : ToAsciiLower(type_str[i]) = k[i]

Wrapped(type_str) ==
    Len(type_str) >= 2 /\ type_str[1] = "{" /\ type_str[Len(type_str)] = "}"

\* C6: for a type string that is no numeric keyword, parse_schema returns an
\* invalid-type error naming the string when it is not wrapped in braces, an
\* incomplete-nominal error when the brace body yields no value name, a
\* duplicate error naming the value when a value name is extracted twice, and
\* a Nominal type in every other case.
C6_ParseSchemaErrors ==
    (pc = "parsed" /\ ~IsNumericKeyword(inp)) =>
        IF ~Wrapped(inp)
        THEN /\ ~ptype.ok
             /\ ptype.type = NoType
             /\ ptype.err = ErrText("Invalid attribute type: {}", inp)
        ELSE LET names == CollectTokens(Split(BraceBody(inp), ","), ",")
                 twice == {names[i] : i \in {k \in 1..Len(names) :
                              \E j \in 1..Len(names) : j # k /\ names[j] = names[k]}}
             IN  IF names = <<>>
                 THEN /\ ~ptype.ok
                      /\ ptype.type = NoType
                      /\ ptype.err.msg = "Incomplete nominal attribute type"
                 ELSE IF twice # {}
                 THEN /\ ~ptype.ok
                      /\ ptype.type = NoType
                      /\ ptype.err.msg = "Duplicate nominal attribute: {}"
                      /\ ptype.err.text \in twice
                 ELSE /\ ptype.ok
                      /\ ptype.type.kind = "Nominal"
                      /\ ptype.err = NoErr

C6_Witness ==
    /\ pc = "parsed"
    /\ inp = s_qa_a
    /\ ~ptype.ok
    /\ ptype.err = ErrText("Duplicate nominal attribute: {}", <<"a">>)

(***************************************************************************)
(* SpecHeader: load_header_line called line after line on the relation     *)
(* load_arff constructs.                                                   *)
(***************************************************************************)
h_relation_weather ==
    <<"@","r","e","l","a","t","i","o","n"," ","w","e","a","t","h","e","r">>
h_attr_temperature ==
    <<"@","a","t","t","r","i","b","u","t","e"," ","t","e","m","p","e","r","a","t","u",
      "r","e"," ","r","e","a","l">>
h_attr_outlook ==
    <<"@","a","t","t","r","i","b","u","t","e"," ","o","u","t","l","o","o","k"," ","{",
      "s","u","n","n","y",",","r","a","i","n","y","}">>
h_data == <<"@","d","a","t","a">>
h_empty == <<>>
h_space_data == <<" ","@","d","a","t","a">>
h_relation_only == <<"@","r","e","l","a","t","i","o","n">>
h_relation_quoted ==
    <<"@","r","e","l","a","t","i","o","n"," ","'","m","y"," ","r","e","l","'">>
h_Data == <<"@","D","a","t","a">>
h_attr_dup == <<"@","a","t","t","r","i","b","u","t","e"," ","x"," ","{","a",",","a","}">>
h_attr_only == <<"@","a","t","t","r","i","b","u","t","e">>

s_weather == <<"w","e","a","t","h","e","r">>
s_temperature == <<"t","e","m","p","e","r","a","t","u","r","e">>
s_outlook == <<"o","u","t","l","o","o","k">>
s_sunny == <<"s","u","n","n","y">>
s_rainy == <<"r","a","i","n","y">>
s_my_rel == <<"m","y"," ","r","e","l">>

h_relation_two_words == <<"@","r","e","l","a","t","i","o","n"," ","m","y"," ","r","e","l">>
h_RELATION_weather == <<"@","R","E","L","A","T","I","O","N"," ","w","e","a","t","h","e","r">>
h_space_attr == <<" ","@","a","t","t","r","i","b","u","t","e"," ","t"," ","r","e","a","l">>

HeaderLines ==
    {h_relation_weather, h_attr_temperature, h_attr_outlook, h_data, h_empty,
     h_space_data, h_relation_only, h_relation_quoted, h_Data, h_attr_dup, h_attr_only,
     h_relation_two_words, h_RELATION_weather, h_space_attr}

InitHeader ==
    /\ pc = "header"
    /\ rel = EmptyRelation(<<>>)
    /\ last = NoCall
    /\ fed = <<>>
    /\ file = <<>>
    /\ pos = 0
    /\ in_header = FALSE
    /\ result = NoResult
    /\ handled = <<>>
    /\ inp = <<>>
    /\ split = ","
    /\ iter = <<>>
    /\ tokens = <<>>
    /\ nq = NoNq
    /\ ptype = NoParse
    /\ acc = NoAccess

\* One call of load_header_line.
CallLoadHeaderLine ==
    /\ pc = "header"
    /\ Len(fed) < MaxHeaderCalls
    /\ \E line \in HeaderLines :
          LET r == load_header_line(rel, line)
          IN  /\ rel' = r.rel
              /\ last' = [op |-> "load_header_line", line |-> line, ok |-> r.ok,
                          done |-> r.done, err |-> r.err, before |-> rel]
              /\ fed' = Append(fed, [op |-> "load_header_line", line |-> line,
                                      ok |-> r.ok, done |-> r.done])
              /\ pc' = IF r.panic THEN "panic" ELSE "header"
    /\ UNCHANGED <<acc, file, pos, in_header, result, handled, inp, split, iter, tokens,
                   nq, ptype>>

NextHeader == CallLoadHeaderLine

SpecHeader == InitHeader /\ [][NextHeader]_vars

(***************************************************************************)
(* C7.                                                                     *)
(***************************************************************************)
SunnyRainy == Nominal(<<s_sunny, s_rainy>>, (s_sunny :> 0) @@ (s_rainy :> 1))

\* The declaration each @attribute line of HeaderLines makes, written out.
Declares(line) ==
    IF line = h_attr_temperature THEN <<AttributeFormat(s_temperature, Numeric)>>
    ELSE IF line = h_attr_outlook THEN <<AttributeFormat(s_outlook, SunnyRainy)>>
    ELSE <<>>

RECURSIVE DeclaredSchema(_)
DeclaredSchema(calls) ==
    IF calls = <<>> THEN <<>>
    ELSE DeclaredSchema(SubSeq(calls, 1, Len(calls) - 1)) \o Declares(calls[Len(calls)].line)

AllValid == \A i \in 1..Len(fed) : fed[i].ok

\* C7: while every line given to load_header_line was valid, the loader has
\* signalled completion on exactly the @data lines, so first on the first
\* @data line, and the schema is the list of the @attribute declarations in
\* line order with their parsed types.  For @relation weather, @attribute
\* temperature real, @attribute outlook {sunny,rainy}, @data: completion on
\* line 4 only, schema = temperature Numeric, outlook Nominal sunny=0 rainy=1.
C7_HeaderEndsOnData ==
    (pc = "header" /\ AllValid) =>
        /\ \A i \in 1..Len(fed) : fed[i].done <=> fed[i].line = h_data
        /\ rel.schema = DeclaredSchema(fed)
        /\ rel.data = <<>>
        /\ [i \in 1..Len(fed) |-> fed[i].line] =
              <<h_relation_weather, h_attr_temperature, h_attr_outlook, h_data>> =>
              /\ [i \in 1..Len(fed) |-> fed[i].done] = <<FALSE, FALSE, FALSE, TRUE>>
              /\ rel.schema = <<AttributeFormat(s_temperature, Numeric),
                                AttributeFormat(s_outlook, SunnyRainy)>>

C7_Witness ==
    /\ pc = "header"
    /\ [i \in 1..Len(fed) |-> fed[i].line] =
          <<h_relation_weather, h_attr_temperature, h_attr_outlook, h_data>>
    /\ AllValid
    /\ last.done
    /\ Len(rel.schema) = 2

(***************************************************************************)
(* SpecData: load_data_line called line after line on a relation whose     *)
(* schema load_header_line has built from @attribute lines.                *)
(***************************************************************************)
d_72_sunny == <<"7","2",",","s","u","n","n","y">>
d_q_rainy == <<"?",",","r","a","i","n","y">>
d_72_overcast == <<"7","2",",","o","v","e","r","c","a","s","t">>
d_72_sunny_extra == <<"7","2",",","s","u","n","n","y",",","e","x","t","r","a">>
d_72 == <<"7","2">>
d_x_overcast == <<"x",",","o","v","e","r","c","a","s","t">>
d_spaced == <<" ","7","2",".","0"," ",","," ","s","u","n","n","y"," ">>
d_empty == <<>>
d_rainy_q == <<"r","a","i","n","y",",","?">>

s_overcast == <<"o","v","e","r","c","a","s","t">>
s_x == <<"x">>

DataLines ==
    {d_72_sunny, d_q_rainy, d_72_overcast, d_72_sunny_extra, d_72, d_x_overcast,
     d_spaced, d_empty, d_rainy_q}

AttributeLines == {h_attr_temperature, h_attr_outlook}

\* The relation after load_header_line has taken the lines in order.
RECURSIVE HeaderFold(_)
HeaderFold(lines) ==
    IF lines = <<>> THEN EmptyRelation(<<>>)
    ELSE load_header_line(HeaderFold(SubSeq(lines, 1, Len(lines) - 1)),
                          lines[Len(lines)]).rel

InitData ==
    /\ \E k \in 0..MaxAttrs : \E lines \in [1..k -> AttributeLines] :
          /\ rel = HeaderFold(lines)
          /\ fed = [i \in 1..k |-> [op |-> "load_header_line", line |-> lines[i],
                                    ok |-> TRUE, done |-> FALSE]]
    /\ pc = "data"
    /\ last = NoCall
    /\ file = <<>>
    /\ pos = 0
    /\ in_header = FALSE
    /\ result = NoResult
    /\ handled = <<>>
    /\ inp = <<>>
    /\ split = ","
    /\ iter = <<>>
    /\ tokens = <<>>
    /\ nq = NoNq
    /\ ptype = NoParse
    /\ acc = NoAccess

DataCalls == Cardinality({i \in 1..Len(fed) : fed[i].op = "load_data_line"})

\* One call of load_data_line.
CallLoadDataLine ==
    /\ pc = "data"
    /\ DataCalls < MaxDataCalls
    /\ \E line \in DataLines :
          LET r == load_data_line(rel, line)
          IN  /\ rel' = r.rel
              /\ last' = [op |-> "load_data_line", line |-> line, ok |-> r.ok,
                          done |-> FALSE, err |-> r.err, before |-> rel]
              /\ fed' = Append(fed, [op |-> "load_data_line", line |-> line,
                                      ok |-> r.ok, done |-> FALSE])
    /\ UNCHANGED <<acc, pc, file, pos, in_header, result, handled, inp, split, iter, tokens,
                   nq, ptype>>

\* One call of row on the relation as it stands.
CallRow ==
    /\ pc = "data"
    /\ \E n \in 0..MaxIndex :
          acc' = [op |-> "row", on |-> rel, n |-> n, ret |-> row(rel, n)]
    /\ UNCHANGED <<pc, rel, file, pos, in_header, result, handled, last, fed, inp, split,
                   iter, tokens, nq, ptype>>

\* One call of col on the relation as it stands.
CallCol ==
    /\ pc = "data"
    /\ \E n \in 0..MaxIndex :
          acc' = [op |-> "col", on |-> rel, n |-> n, ret |-> col(rel, n)]
    /\ UNCHANGED <<pc, rel, file, pos, in_header, result, handled, last, fed, inp, split,
                   iter, tokens, nq, ptype>>

NextData == CallLoadDataLine \/ CallRow \/ CallCol

SpecData == InitData /\ [][NextData]_vars

(***************************************************************************)
(* C2.                                                                     *)
(***************************************************************************)
\* The comma-separated fields of a line, counted as the claims count them.
FieldCount(line) == Cardinality({i \in 1..Len(line) : line[i] = ","}) + 1

WidthMessage == "Data length ({}) does not match schema length ({})"

\* C2: load_data_line on a line with more comma-separated fields than the
\* schema has columns fails with the row-width-mismatch error reporting the
\* field count and the schema length, and appends no row.
C2_TooManyFieldsRejected ==
    (last.op = "load_data_line" /\ FieldCount(last.line) > Len(last.before.schema)) =>
        /\ ~last.ok
        /\ last.err = ErrLen(WidthMessage, FieldCount(last.line), Len(last.before.schema))
        /\ rel.data = last.before.data

(***************************************************************************)
(* C8.                                                                     *)
(***************************************************************************)
\* The k-th field of a line as the claim reads it: the text between the
\* commas, without the blanks around it.
RECURSIVE StripBlanks(_)
StripBlanks(s) ==
    IF s # <<>> /\ s[1] = " " THEN StripBlanks(Tail(s))
    ELSE IF s # <<>> /\ s[Len(s)] = " " THEN StripBlanks(SubSeq(s, 1, Len(s) - 1))
    ELSE s

RECURSIVE CommaFields(_)
CommaFields(line) ==
    IF \A i \in 1..Len(line) : line[i] # "," THEN <<line>>
    ELSE LET i == CHOOSE k \in 1..Len(line) :
                     line[k] = "," /\ \A j \in 1..(k - 1) : line[j] # ","
         IN  <<SubSeq(line, 1, i - 1)>> \o CommaFields(SubSeq(line, i + 1, Len(line)))

FieldAt(line, k) == StripBlanks(CommaFields(line)[k])

\* The 0-based declaration positions of a name in a Nominal column.
PositionsOf(name, attr) ==
    {i - 1 : i \in {j \in 1..Len(attr.attr_type.values) : attr.attr_type.values[j] = name}}

\* The positions of a line that face a Nominal column with a field that is
\* neither ? nor a declared name.
UnknownNominal(line, schema) ==
    {k \in 1..Min(FieldCount(line), Len(schema)) :
        /\ schema[k].attr_type.kind = "Nominal"
        /\ FieldAt(line, k) # <<"?">>
        /\ PositionsOf(FieldAt(line, k), schema[k]) = {}}

\* The positions of a line whose field fails to convert.
Unconvertible(line, schema) ==
    {k \in 1..Min(FieldCount(line), Len(schema)) :
        ~ConvertField(FieldAt(line, k), schema[k]).ok}

\* In an accepted row ? gives Missing and a declared name of a Nominal column
\* gives its 0-based declaration position.
AcceptedRowAsDescribed ==
    (last.op = "load_data_line" /\ last.ok) =>
        LET schema == last.before.schema
            stored == rel.data[Len(rel.data)]
        IN  /\ rel.data = Append(last.before.data, stored)
            /\ \A k \in 1..Len(stored) :
                  /\ FieldAt(last.line, k) = <<"?">> => stored[k] = Missing
                  /\ (FieldAt(last.line, k) # <<"?">> /\ schema[k].attr_type.kind = "Nominal")
                        => /\ stored[k].kind = "Nominal"
                           /\ PositionsOf(FieldAt(last.line, k), schema[k]) = {stored[k].code}
                  /\ (FieldAt(last.line, k) # <<"?">> /\ schema[k].attr_type.kind = "Numeric")
                        => stored[k].kind = "Numeric"

\* C8 as stated: an accepted row is as described, and every field of a Nominal
\* column that equals no declared name makes the line fail with the
\* unrecognized-value error naming that field.
C8_EveryUnknownFieldNamed ==
    /\ AcceptedRowAsDescribed
    /\ last.op = "load_data_line" =>
          \A k \in UnknownNominal(last.line, last.before.schema) :
              /\ ~last.ok
              /\ last.err = ErrText("Unrecognized value {}", FieldAt(last.line, k))
              /\ rel = last.before

\* C8 as amended: an accepted row is as described; a field of a Nominal column
\* that equals no declared name makes the line fail, and the error is the
\* unrecognized-value error naming that field when no earlier field of the
\* line fails to convert.
C8_FirstUnknownFieldNamed ==
    /\ AcceptedRowAsDescribed
    /\ last.op = "load_data_line" =>
          \A k \in UnknownNominal(last.line, last.before.schema) :
              /\ ~last.ok
              /\ rel = last.before
              /\ (\A j \in Unconvertible(last.line, last.before.schema) : k <= j)
                    => last.err = ErrText("Unrecognized value {}", FieldAt(last.line, k))

C8_Witness ==
    /\ last.op = "load_data_line"
    /\ last.line = d_72_overcast
    /\ Len(last.before.schema) = 2
    /\ last.before.schema[1].attr_type.kind = "Numeric"
    /\ last.before.schema[2].attr_type = SunnyRainy
    /\ last.err = ErrText("Unrecognized value {}", s_overcast)
    /\ rel.data = << <<Missing, NominalValue(1)>> >>

(***************************************************************************)
(* C9.                                                                     *)
(***************************************************************************)
\* C9: load_data_line on a line with fewer fields than the schema has columns,
\* all of them convertible, fails with "Data length (X) does not match schema
\* length (Y)", X the number of fields and Y the schema length, and appends no
\* row.
C9_TooFewFieldsRejected ==
    (/\ last.op = "load_data_line"
     /\ FieldCount(last.line) < Len(last.before.schema)
     /\ Unconvertible(last.line, last.before.schema) = {}) =>
        /\ ~last.ok
        /\ last.err = ErrLen(WidthMessage, FieldCount(last.line), Len(last.before.schema))
        /\ rel.data = last.before.data

C9_Witness ==
    /\ last.op = "load_data_line"
    /\ last.line = d_72
    /\ Len(last.before.schema) = 2
    /\ ~last.ok
    /\ last.err = ErrLen(WidthMessage, 1, 2)

(***************************************************************************)
(* Spec: Relation::load_arff, lines 145-169.                               *)
(***************************************************************************)
l_comment == <<"%"," ","c">>
s_path == <<"w",".","a","r","f","f">>

\* A line of the file as reader.lines() yields it: Ok(text), or Err for a
\* line that cannot be decoded.
Readable(text) == [ok |-> TRUE, text |-> text]

Unreadable == [ok |-> FALSE, text |-> <<>>]

FileLines ==
    {Readable(t) : t \in {h_relation_weather, h_attr_temperature, h_attr_outlook,
                          h_data, h_Data, d_72_sunny, d_72_overcast, l_comment}}
    \cup {Unreadable}

\* filename.to_str(): the path, or "" when it is not valid UTF-8.
Filenames == {s_path, <<>>}

\* let mut in_header = false, line 158.
InHeaderInit == FALSE

\* A mutant of InHeaderAfter: a data line sends the loop back to the header.
InHeaderAfterBack(flag, done) == IF flag THEN ~done ELSE TRUE

\* The flag after one pass of the loop body, lines 161-165: cleared when the
\* header loader returned true, left alone otherwise.
InHeaderAfter(flag, done) == IF flag /\ done THEN FALSE ELSE flag

\* The ? of lines 162 and 164: an Err leaves load_arff at once.
Propagate(ok) == ~ok

Init ==
    /\ pc = "open"
    /\ \E k \in 0..MaxLines : file \in [1..k -> FileLines]
    /\ pos = 0
    /\ in_header = FALSE
    /\ rel = EmptyRelation(<<>>)
    /\ result = NoResult
    /\ handled = <<>>
    /\ last = NoCall
    /\ fed = <<>>
    /\ inp = <<>>
    /\ split = ","
    /\ iter = <<>>
    /\ tokens = <<>>
    /\ nq = NoNq
    /\ ptype = NoParse
    /\ acc = NoAccess

\* fs::File::open fails, line 146: the error goes to the caller.
OpenFails ==
    /\ pc = "open"
    /\ result' = [returned |-> TRUE, ok |-> FALSE,
                  err |-> ErrText("io::Error", <<>>), rel |-> EmptyRelation(<<>>)]
    /\ pc' = "returned"
    /\ UNCHANGED <<acc, rel, file, pos, in_header, handled, last, fed, inp, split, iter,
                   tokens, nq, ptype>>

\* Lines 146-158: the file opens, the empty Relation and the flag are set up.
OpenFile ==
    /\ pc = "open"
    /\ \E filename \in Filenames : rel' = EmptyRelation(filename)
    /\ in_header' = InHeaderInit
    /\ pc' = "loop"
    /\ UNCHANGED <<acc, file, pos, result, handled, last, fed, inp, split, iter, tokens,
                   nq, ptype>>

\* The filters of line 160: an unreadable line and a line that starts with %
\* never reach the loop body.
SkipLine ==
    /\ pc = "loop"
    /\ pos < Len(file)
    /\ ~file[pos + 1].ok \/ StartsWith(file[pos + 1].text, "%")
    /\ pos' = pos + 1
    /\ UNCHANGED <<acc, pc, rel, file, in_header, result, handled, last, fed, inp, split,
                   iter, tokens, nq, ptype>>

\* One pass of the loop body, lines 161-165.
ProcessLine ==
    /\ pc = "loop"
    /\ pos < Len(file)
    /\ file[pos + 1].ok /\ ~StartsWith(file[pos + 1].text, "%")
    /\ LET line == file[pos + 1].text
           h    == load_header_line(rel, line)
           d    == load_data_line(rel, line)
           ok   == IF in_header THEN h.ok ELSE d.ok
           done == in_header /\ h.ok /\ h.done
           err  == IF in_header THEN h.err ELSE d.err
       IN  /\ pos' = pos + 1
           /\ handled' = Append(handled,
                                [index |-> pos + 1,
                                 by |-> IF in_header THEN "load_header_line"
                                        ELSE "load_data_line",
                                 ok |-> ok, done |-> done])
           /\ rel' = IF in_header THEN h.rel ELSE d.rel
           /\ IF in_header /\ h.panic
              THEN /\ pc' = "panic"
                   /\ UNCHANGED <<in_header, result>>
              ELSE IF Propagate(ok)
              THEN /\ pc' = "returned"
                   /\ result' = [returned |-> TRUE, ok |-> FALSE, err |-> err,
                                 rel |-> EmptyRelation(<<>>)]
                   /\ UNCHANGED in_header
              ELSE /\ pc' = "loop"
                   /\ in_header' = InHeaderAfter(in_header, done)
                   /\ UNCHANGED result
    /\ UNCHANGED <<acc, file, last, fed, inp, split, iter, tokens, nq, ptype>>

\* Ok(result), line 168, when the lines are exhausted.
ReturnRelation ==
    /\ pc = "loop"
    /\ pos = Len(file)
    /\ result' = [returned |-> TRUE, ok |-> TRUE, err |-> NoErr, rel |-> rel]
    /\ pc' = "returned"
    /\ UNCHANGED <<acc, rel, file, pos, in_header, handled, last, fed, inp, split, iter,
                   tokens, nq, ptype>>

Next == OpenFails \/ OpenFile \/ SkipLine \/ ProcessLine \/ ReturnRelation

Spec == Init /\ [][Next]_vars

(***************************************************************************)
(* C1.                                                                     *)
(***************************************************************************)
\* Whether the header loader has signalled completion before the i-th
\* processed line.
HeaderCompleteBefore(i) ==
    \E j \in 1..(i - 1) : handled[j].by = "load_header_line" /\ handled[j].done

\* C1: during load_arff every line up to and including the first on which
\* the header loader signals completion is processed by load_header_line, and
\* only the lines after it are processed by load_data_line.
C1_HeaderThenData ==
    \A i \in 1..Len(handled) :
        IF HeaderCompleteBefore(i) THEN handled[i].by = "load_data_line"
        ELSE handled[i].by = "load_header_line"

(***************************************************************************)
(* C3.                                                                     *)
(***************************************************************************)
RowsFit(r) == \A i \in 1..Len(r.data) : Len(r.data[i]) = Len(r.schema)

\* C3: in every state of load_arff, and in the relation it returns, every
\* stored row is as wide as the schema is long.
C3_RowWidthIsSchemaLength ==
    /\ RowsFit(rel)
    /\ (result.returned /\ result.ok) => RowsFit(result.rel)

C3_Witness ==
    /\ pc = "returned"
    /\ result.ok
    /\ Len(result.rel.data) = 2
    /\ Len(handled) = 2
    /\ RowsFit(result.rel)

(***************************************************************************)
(* C10.                                                                    *)
(***************************************************************************)
\* C10: when a line fails, load_arff stops there and the caller receives that
\* line's error and no relation.  The premise: some processed line failed.
C10_LineFailed == \E i \in 1..Len(handled) : ~handled[i].ok

C10_StopsAtFirstFailure ==
    C10_LineFailed =>
        /\ ~handled[Len(handled)].ok
        /\ \A i \in 1..(Len(handled) - 1) : handled[i].ok
        /\ pc = "returned"
        /\ result.returned /\ ~result.ok
        /\ result.rel = EmptyRelation(<<>>)

(***************************************************************************)
(* C11.                                                                    *)
(***************************************************************************)
\* C11: for a relation with N rows and an index k valid for the schema,
\* col(k) returns a sequence of length N whose i-th element is row(i)[k].
C11_ColumnMatchesRows ==
    (acc.op = "col" /\ acc.n < Len(acc.on.schema)) =>
        /\ acc.ret.some
        /\ Len(acc.ret.val) = Len(acc.on.data)
        /\ \A i \in 0..(Len(acc.on.data) - 1) :
              /\ row(acc.on, i).some
              /\ acc.ret.val[i + 1] = row(acc.on, i).val[acc.n + 1]

C11_Witness ==
    /\ acc.op = "col"
    /\ acc.n = 1
    /\ Len(acc.on.schema) = 2
    /\ acc.on.schema[2].attr_type = SunnyRainy
    /\ acc.ret = Some(<<NominalValue(0), NominalValue(1)>>)

(***************************************************************************)
(* C12.                                                                    *)
(***************************************************************************)
\* C12 as stated: col(k) returns "absent" whenever k is out of bounds for the
\* schema, for every relation, one without rows included.
C12_AbsentWhenOutOfBounds ==
    (acc.op = "col" /\ acc.n >= Len(acc.on.schema)) => ~acc.ret.some

\* C12 as amended: for k out of bounds for the schema, col(k) returns "absent"
\* when the relation has at least one row, and the empty column when it has
\* none.
C12_AbsentWhenSomeRowLacksIndex ==
    (acc.op = "col" /\ acc.n >= Len(acc.on.schema)) =>
        IF acc.on.data = <<>> THEN acc.ret = Some(<<>>) ELSE acc.ret = None

C12_Witness ==
    /\ acc.op = "col"
    /\ Len(acc.on.schema) = 2
    /\ acc.n = 2
    /\ Len(acc.on.data) = 2
    /\ acc.ret = None

(***************************************************************************)
(* C13.                                                                    *)
(***************************************************************************)
\* The lines of the successful calls of load_data_line, in call order.
RECURSIVE AcceptedLines(_)
AcceptedLines(calls) ==
    IF calls = <<>> THEN <<>>
    ELSE LET c == calls[Len(calls)]
             before == AcceptedLines(SubSeq(calls, 1, Len(calls) - 1))
         IN  IF c.op = "load_data_line" /\ c.ok THEN Append(before, c.line) ELSE before

\* The value a field stands for in a column, as spec 4.4 reads it.
ValueOf(field, attr) ==
    IF field = <<"?">> THEN Missing
    ELSE IF attr.attr_type.kind = "Nominal"
    THEN NominalValue(CHOOSE c \in PositionsOf(field, attr) : TRUE)
    ELSE NumericValue(parse_f64(field).num)

RowOf(line, schema) == [k \in 1..Len(schema) |-> ValueOf(FieldAt(line, k), schema[k])]

\* C13: after any sequence of load_data_line calls the row store holds the
\* rows decoded from the successful calls in call order: row(i) is the row of
\* the i-th successful line for i below their number and "absent" above.
C13_RowsInCallOrder ==
    LET accepted == AcceptedLines(fed)
    IN  pc = "data" =>
          /\ \A i \in 0..(Len(accepted) - 1) :
                row(rel, i) = Some(RowOf(accepted[i + 1], rel.schema))
          /\ \A i \in Len(accepted)..(Len(accepted) + MaxIndex) : row(rel, i) = None
          /\ (acc.op = "row" /\ acc.on = rel) => acc.ret = row(rel, acc.n)

C13_Witness ==
    /\ pc = "data"
    /\ AcceptedLines(fed) = <<d_72_sunny, d_q_rainy>>
    /\ Len(rel.schema) = 2
    /\ acc.op = "row"
    /\ acc.on = rel
    /\ acc.n = 1
    /\ acc.ret = Some(<<Missing, NominalValue(1)>>)

(***************************************************************************)
(* C14.                                                                    *)
(***************************************************************************)
\* The text of a line before its first space, and the pieces between the
\* spaces after it.
FirstWord(line) ==
    IF \A i \in 1..Len(line) : line[i] # " " THEN line
    ELSE SubSeq(line, 1, (CHOOSE k \in 1..Len(line) :
                             line[k] = " " /\ \A j \in 1..(k - 1) : line[j] # " ") - 1)

RECURSIVE WordsAfter(_)
WordsAfter(line) ==
    IF \A i \in 1..Len(line) : line[i] # " " THEN <<>>
    ELSE LET rest == SubSeq(line, Len(FirstWord(line)) + 2, Len(line))
         IN  <<FirstWord(rest)>> \o WordsAfter(rest)

s_my == <<"m","y">>
s_RELATION == <<"@","R","E","L","A","T","I","O","N">>

\* C14: after load_header_line has taken an @relation line the relation name
\* is the token the quoted tokenizer, with delimiter space, makes of the
\* words after the directive (a quoted name with spaces whole, without its
\* quotes); when no name follows the call fails with "No relation name
\* given"; the header is not signalled complete either way.
C14_RelationName ==
    (last.op = "load_header_line" /\ FirstWord(last.line) = s_at_relation) =>
        LET c == ClaimTokens(WordsAfter(last.line), " ")
        IN  /\ ~last.done
            /\ (c.covered /\ c.toks # <<>>) =>
                  /\ last.ok
                  /\ rel = [last.before EXCEPT !.name = c.toks[1]]
            /\ (c.covered /\ c.toks = <<>>) =>
                  /\ ~last.ok
                  /\ last.err = ErrText("No relation name given", <<>>)
            /\ last.line = h_relation_weather => rel.name = s_weather
            /\ last.line = h_relation_quoted => rel.name = s_my_rel
            /\ last.line = h_relation_two_words => rel.name = s_my
            /\ last.line = h_relation_only => ~last.ok

C14_Witness ==
    /\ Len(fed) = 2
    /\ fed[1].line = h_relation_only
    /\ ~fed[1].ok
    /\ last.op = "load_header_line"
    /\ last.line = h_relation_quoted
    /\ last.ok
    /\ ~last.done
    /\ rel.name = s_my_rel

(***************************************************************************)
(* C15.                                                                    *)
(***************************************************************************)
\* C15: load_header_line on a line whose first space-separated token is not
\* empty and is none of @relation, @attribute, @data, letter case counted,
\* fails with an error naming that token and does not signal completion.
C15_UnknownDirectiveRejected ==
    (/\ last.op = "load_header_line"
     /\ FirstWord(last.line) \notin {<<>>, s_at_relation, s_at_attribute, s_at_data}) =>
        /\ ~last.ok
        /\ ~last.done
        /\ last.err = ErrText("Unrecognized token {} in header", FirstWord(last.line))

C15_Witness ==
    /\ last.op = "load_header_line"
    /\ last.line = h_RELATION_weather
    /\ ~last.ok
    /\ last.err = ErrText("Unrecognized token {} in header", s_RELATION)

(***************************************************************************)
(* C20.                                                                    *)
(***************************************************************************)
\* C20: load_header_line on a line whose first space-separated token is
\* empty, the empty line and every line that starts with a space, returns
\* without error, does not signal completion and leaves name, schema and rows
\* as they were.
C20_EmptyFirstTokenIsNoOp ==
    (last.op = "load_header_line" /\ (last.line = <<>> \/ last.line[1] = " ")) =>
        /\ last.ok
        /\ ~last.done
        /\ last.err = NoErr
        /\ rel = last.before

C20_Witness ==
    /\ last.op = "load_header_line"
    /\ last.line = h_space_attr
    /\ last.ok
    /\ ~last.done
    /\ rel.name = s_weather
    /\ rel.schema = <<>>
    /\ rel = last.before

(***************************************************************************)
(* C16.                                                                    *)
(***************************************************************************)
\* C16: load_arff never goes back to the header: from a state outside the
\* header phase every line processed goes to load_data_line, the flag stays
\* clear, and name and schema do not change; nor do they once a row is stored.
C16_NoWayBackToHeader ==
    [][/\ (pc = "loop" /\ ~in_header) =>
             /\ ~in_header'
             /\ rel'.name = rel.name
             /\ rel'.schema = rel.schema
             /\ handled' # handled =>
                   handled'[Len(handled')].by = "load_data_line"
       /\ Len(rel.data) > 0 =>
             /\ rel'.name = rel.name
             /\ rel'.schema = rel.schema]_vars

C16_Witness ==
    /\ pc = "loop"
    /\ file = <<Readable(d_72_sunny), Readable(h_attr_temperature)>>
    /\ Len(handled) = 2
    /\ handled[1].by = "load_data_line"
    /\ handled[2].by = "load_data_line"
    /\ Len(rel.data) = 2
    /\ rel.schema = <<>>
    /\ rel.name = <<>>

(***************************************************************************)
(* C17.                                                                    *)
(***************************************************************************)
EndsInQuote(f) == Len(f) > 0 /\ f[Len(f)] = "'"

\* The position of the fragment next_quoted examines: the first that is not
\* empty; 0 when there is none.
ExaminedAt(frags) ==
    IF \A j \in 1..Len(frags) : frags[j] = <<>> THEN 0
    ELSE CHOOSE j \in 1..Len(frags) :
             frags[j] # <<>> /\ \A i \in 1..(j - 1) : frags[i] = <<>>

\* The examined fragment opens a quote that neither it nor a later fragment
\* closes.
OpensUnclosed(frags) ==
    LET j == ExaminedAt(frags)
    IN  /\ j > 0
        /\ frags[j][1] = "'"
        /\ ~(Len(frags[j]) >= 2 /\ EndsInQuote(frags[j]))
        /\ \A m \in (j + 1)..Len(frags) : ~EndsInQuote(frags[m])

\* C17: next_quoted never fails its assertion; when a quote is opened, be it
\* by the single character ', and no later fragment closes it, the call
\* consumes the rest of the stream and returns no token.
C17_UnclosedQuoteGivesNoToken ==
    /\ pc # "panic"
    /\ ~nq.ret.panic
    /\ OpensUnclosed(nq.before) =>
          /\ ~nq.ret.some
          /\ nq.ret.iter = <<>>
          /\ iter = <<>>

C17_Witness ==
    /\ inp = <<"'", ",", "a">>
    /\ split = ","
    /\ nq.before = << <<"'">>, <<"a">> >>
    /\ ~nq.ret.some
    /\ iter = <<>>
    /\ pc = "schema"

(***************************************************************************)
(* C18.                                                                    *)
(***************************************************************************)
\* The examined fragment begins with a quote and ends with a quote.
SelfQuoted(frags) ==
    LET j == ExaminedAt(frags)
    IN  j > 0 /\ frags[j][1] = "'" /\ EndsInQuote(frags[j])

ReturnsUnquoted(call) ==
    LET j == ExaminedAt(call.before)
        f == call.before[j]
    IN  /\ call.ret.some
        /\ call.ret.val = SubSeq(f, 2, Len(f) - 1)
        /\ call.ret.iter = SubSeq(call.before, j + 1, Len(call.before))

\* C18 as stated: a fragment that begins and ends with a quote is returned
\* without its quotes and no further fragment is consumed.
C18_SelfQuotedReturnedAtOnce ==
    SelfQuoted(nq.before) => ReturnsUnquoted(nq)

\* C18 as amended: a fragment of at least two characters that begins and ends
\* with a quote is returned without its quotes and no further fragment is
\* consumed.
C18_SelfQuotedPairReturnedAtOnce ==
    (SelfQuoted(nq.before) /\ Len(nq.before[ExaminedAt(nq.before)]) >= 2) =>
        ReturnsUnquoted(nq)

C18_Witness ==
    /\ inp = <<"'", "a", "'", ",">>
    /\ split = ","
    /\ nq.before = << <<"'", "a", "'">>, <<>> >>
    /\ nq.ret.some
    /\ nq.ret.val = <<"a">>
    /\ iter = << <<>> >>

(***************************************************************************)
(* SpecLoaders: load_header_line and load_data_line called in any order on *)
(* the relation load_arff constructs.                                      *)
(***************************************************************************)
LoaderLines ==
    {h_relation_weather, h_attr_outlook, h_attr_dup, h_relation_only, h_Data,
     d_72_sunny, d_72_overcast, d_72}

InitLoaders ==
    /\ pc = "calls"
    /\ rel = EmptyRelation(<<>>)
    /\ last = NoCall
    /\ fed = <<>>
    /\ file = <<>>
    /\ pos = 0
    /\ in_header = FALSE
    /\ result = NoResult
    /\ handled = <<>>
    /\ inp = <<>>
    /\ split = ","
    /\ iter = <<>>
    /\ tokens = <<>>
    /\ nq = NoNq
    /\ ptype = NoParse
    /\ acc = NoAccess

\* One call of load_header_line.
FeedHeaderLine ==
    /\ pc = "calls"
    /\ Len(fed) < MaxCalls
    /\ \E line \in LoaderLines :
          LET r == load_header_line(rel, line)
          IN  /\ rel' = r.rel
              /\ last' = [op |-> "load_header_line", line |-> line, ok |-> r.ok,
                          done |-> r.done, err |-> r.err, before |-> rel]
              /\ fed' = Append(fed, [op |-> "load_header_line", line |-> line,
                                      ok |-> r.ok, done |-> r.done])
              /\ pc' = IF r.panic THEN "panic" ELSE "calls"
    /\ UNCHANGED <<acc, file, pos, in_header, result, handled, inp, split, iter, tokens,
                   nq, ptype>>

\* One call of load_data_line.
FeedDataLine ==
    /\ pc = "calls"
    /\ Len(fed) < MaxCalls
    /\ \E line \in LoaderLines :
          LET r == load_data_line(rel, line)
          IN  /\ rel' = r.rel
              /\ last' = [op |-> "load_data_line", line |-> line, ok |-> r.ok,
                          done |-> FALSE, err |-> r.err, before |-> rel]
              /\ fed' = Append(fed, [op |-> "load_data_line", line |-> line,
                                      ok |-> r.ok, done |-> FALSE])
    /\ UNCHANGED <<acc, pc, file, pos, in_header, result, handled, inp, split, iter,
                   tokens, nq, ptype>>

NextLoaders == FeedHeaderLine \/ FeedDataLine

SpecLoaders == InitLoaders /\ [][NextLoaders]_vars

(***************************************************************************)
(* C19.                                                                    *)
(***************************************************************************)
\* C19: a call of load_header_line or load_data_line that returns an error
\* leaves relation name, schema and row store as they were before the call.
C19_ErrorLeavesRelationAlone ==
    (last.op # "none" /\ ~last.ok) =>
        /\ rel.name = last.before.name
        /\ rel.schema = last.before.schema
        /\ rel.data = last.before.data

C19_Witness ==
    /\ Len(fed) = 3
    /\ fed[1].op = "load_header_line" /\ fed[1].line = h_attr_outlook
    /\ fed[2].op = "load_header_line" /\ fed[2].line = h_relation_only
    /\ ~fed[2].ok
    /\ last.op = "load_data_line"
    /\ last.line = d_72_overcast
    /\ ~last.ok
    /\ rel = last.before
    /\ Len(rel.schema) = 1

====
